---- MODULE Spec2Model ----
(***************************************************************************)
(* Model of the ray tracer of src/main.cpp: the geometry (Sphere, Light,   *)
(* Ray), the intersector, the shadow test, the shading, the row-band       *)
(* worker threads of raytrace and the frame loop of main.                  *)
(*                                                                         *)
(* A float is modelled as a fixed-point integer: the value v is the        *)
(* integer v * FP, colour channels included (255.0 is 255 * FP).  The      *)
(* result of a float operation is rounded to the nearest unit.  The scene  *)
(* and the surface are scaled down to the range of the integers.           *)
(***************************************************************************)
EXTENDS Integers, Sequences, FiniteSets, TLC

\* ------------------------------------------------------------------ scale
\* fixed-point units per 1.0
FP == 100

\* main.cpp:18,19,21, scaled down; NUM_THREADS divides SCREEN_HEIGHT as 8 divides 720
SCREEN_WIDTH == 3
SCREEN_HEIGHT == 4
NUM_THREADS == 2

\* main.cpp:68, constexpr float eps: the smallest positive fixed-point step
eps == 1
\* main.cpp:268, float bias
bias == 1
\* main.cpp:262, std::numeric_limits<float>::max()
FLT_MAX == 1000000
\* +infinity, above every finite float: not a value main.cpp uses
INFINITY == FLT_MAX + 1

NULL == [kind |-> "null", idx |-> 0]

\* ------------------------------------------------------------ vector math
Min(a, b) == IF a < b THEN a ELSE b
Max(a, b) == IF a < b THEN b ELSE a
\* abs of a float (main.cpp:231)
Abs(a) == IF a < 0 THEN 0 - a ELSE a

\* n / d rounded to the nearest integer, as a float operation rounds
Round(n, d) == (n + (d \div 2)) \div d

\* a * b of two floats
Mul(a, b) == Round(a * b, FP)

RECURSIVE SqrtIter(_, _)
SqrtIter(n, x) ==
    LET y == (x + (n \div x)) \div 2
    IN  IF y >= x THEN x ELSE SqrtIter(n, y)

\* floor of the square root of n
Sqrt(n) == IF n <= 0 THEN 0 ELSE SqrtIter(n, n)

VAdd(a, b) == <<a[1] + b[1], a[2] + b[2], a[3] + b[3]>>
VSub(a, b) == <<a[1] - b[1], a[2] - b[2], a[3] - b[3]>>
\* vector * float
VScale(a, s) == <<Mul(a[1], s), Mul(a[2], s), Mul(a[3], s)>>

\* the exact sum of products, before it is rounded to a float
DotRaw(a, b) == a[1] * b[1] + a[2] * b[2] + a[3] * b[3]
\* glm::dot
dot(a, b) == Round(DotRaw(a, b), FP)
\* glm::length
length(a) == Sqrt(DotRaw(a, a))
\* glm::normalize; the zero vector (NaN in the code) is left as it is
normalize(a) ==
    LET l == length(a)
    IN  IF l = 0 THEN a
        ELSE <<Round(a[1] * FP, l), Round(a[2] * FP, l), Round(a[3] * FP, l)>>
\* glm::reflect(I, N) = I - N * dot(N, I) * 2
reflect(I, N) == VSub(I, VScale(N, 2 * dot(N, I)))
\* glm::clamp
clamp(x, lo, hi) == Min(Max(x, lo), hi)

RECURSIVE PowIter(_, _, _)
PowIter(x, n, acc) == IF n = 0 THEN acc ELSE PowIter(x, n - 1, Mul(acc, x))
\* glm::pow(x, 20.0f)
pow20(x) == PowIter(x, 20, FP)

\* --------------------------------------------------------------- geometry
\* class Ray
Ray(origin, direction) == [origin |-> origin, direction |-> direction]

\* class Sphere, five-argument constructor
Sphere(radius, position, colour, diffuse, specular) ==
    [radius |-> radius, position |-> position, colour |-> colour,
     diffuse |-> diffuse, specular |-> specular, intensity |-> 0]

\* class Sphere, three-argument constructor: diffuse 1.0f, specular 0.0f
Sphere3(radius, position, colour) == Sphere(radius, position, colour, FP, 0)

\* class Light : public Sphere, radius 0.05f and colour (255, 255, 0)
Light(intensity, position) ==
    [Sphere3(FP \div 20, position, <<255 * FP, 255 * FP, 0>>)
        EXCEPT !.intensity = intensity]

\* Sphere::intersect: b = glm::dot(op, ray.direction())
B(sphere, ray) ==
    Round(DotRaw(VSub(sphere.position, ray.origin), ray.direction), FP)

\* Sphere::intersect: det = b*b - glm::dot(op, op) + m_radius * m_radius.
\* b * b is rounded once, from the exact dot product.
Det(sphere, ray) ==
    LET op   == VSub(sphere.position, ray.origin)
        braw == DotRaw(op, ray.direction)
    IN  Round(braw * braw, FP * FP) - DotRaw(op, op) + sphere.radius * sphere.radius

\* Sphere::intersect, with >= for > in its epsilon tests
intersect_ge(sphere, ray) ==
    LET b    == B(sphere, ray)
        det  == Det(sphere, ray)
        root == Sqrt(det)
    IN  IF det < 0 THEN 0
        ELSE IF b - root >= eps THEN b - root
        ELSE IF b + root >= eps THEN b + root
        ELSE 0

\* Sphere::intersect
intersect(sphere, ray) ==
    LET b    == B(sphere, ray)
        det  == Det(sphere, ray)
        root == Sqrt(det)
    IN  IF det < 0 THEN 0
        ELSE IF b - root > eps THEN b - root
        ELSE IF b + root > eps THEN b + root
        ELSE 0

\* Sphere::translate
translate(sphere, x, y, z) ==
    [sphere EXCEPT !.position = VAdd(sphere.position, <<x, y, z>>)]

\* setupScene, its two closing loops: a pointer to every sphere, then to every light
RenderObjects(sphs, lts) ==
    [i \in 1..(Len(sphs) + Len(lts)) |->
        IF i <= Len(sphs) THEN [kind |-> "sphere", idx |-> i]
        ELSE [kind |-> "light", idx |-> i - Len(sphs)]]

\* what a Renderable* points to
Deref(sphs, lts, obj) ==
    IF obj.kind = "sphere" THEN sphs[obj.idx] ELSE lts[obj.idx]

\* ------------------------------------------------------------ intersector
RECURSIVE ClosestLoop_le(_, _, _, _, _, _, _)
ClosestLoop_le(sphs, lts, objs, ray, i, closest, closest_dist) ==
    IF i > Len(objs) THEN [closest |-> closest, closest_dist |-> closest_dist]
    ELSE LET dist == intersect(Deref(sphs, lts, objs[i]), ray)
         IN  IF dist > 0 /\ dist <= closest_dist
             THEN ClosestLoop_le(sphs, lts, objs, ray, i + 1, objs[i], dist)
             ELSE ClosestLoop_le(sphs, lts, objs, ray, i + 1, closest, closest_dist)

\* findClosestObject, with <= for < in the comparison with the running best
findClosestObject_le(sphs, lts, objs, ray, closest_dist) ==
    ClosestLoop_le(sphs, lts, objs, ray, 1, NULL, closest_dist)

\* findClosestObject, the loop from object i on
RECURSIVE ClosestLoop(_, _, _, _, _, _, _)
ClosestLoop(sphs, lts, objs, ray, i, closest, closest_dist) ==
    IF i > Len(objs) THEN [closest |-> closest, closest_dist |-> closest_dist]
    ELSE LET dist == intersect(Deref(sphs, lts, objs[i]), ray)
         IN  IF dist > 0 /\ dist < closest_dist
             THEN ClosestLoop(sphs, lts, objs, ray, i + 1, objs[i], dist)
             ELSE ClosestLoop(sphs, lts, objs, ray, i + 1, closest, closest_dist)

\* findClosestObject: the object returned and closest_dist as it leaves it.
\* sphs and lts are the vectors the pointers of objs point into.
findClosestObject(sphs, lts, objs, ray, closest_dist) ==
    ClosestLoop(sphs, lts, objs, ray, 1, NULL, closest_dist)

\* isInShadow, without the upper limit on the distance
isInShadow_nolimit(sphs, lightray, lightdir_length) ==
    \E i \in 1..Len(sphs) : intersect(sphs[i], lightray) > 0

\* isInShadow, the loop from sphere i on
RECURSIVE ShadowLoop(_, _, _, _)
ShadowLoop(sphs, lightray, lightdir_length, i) ==
    IF i > Len(sphs) THEN FALSE
    ELSE LET dist == intersect(sphs[i], lightray)
         IN  IF dist > 0 /\ dist < lightdir_length THEN TRUE
             ELSE ShadowLoop(sphs, lightray, lightdir_length, i + 1)

\* isInShadow
isInShadow(sphs, lightray, lightdir_length) ==
    ShadowLoop(sphs, lightray, lightdir_length, 1)

\* ----------------------------------------------------------------- shader
\* calcIllumination, the loop from light i on; acc is (diffuse, specular)
RECURSIVE IlluminationLoop(_, _, _, _, _, _, _, _)
IlluminationLoop(lts, sphs, ray, closest, contact_point, sphere_normal, i, acc) ==
    IF i > Len(lts) THEN acc
    ELSE
      LET light == lts[i]
          lightdir == VSub(contact_point, light.position)
          lightdir_normalized == normalize(lightdir)
          lightdir_length == length(lightdir)
          lightray == Ray(light.position, lightdir_normalized)
          d == Abs(Mul(dot(lightdir_normalized,
                           normalize(VSub(contact_point, closest.position))),
                       light.intensity))
          s == pow20(dot(ray.direction, reflect(lightdir_normalized, sphere_normal)))
          next == IF isInShadow(sphs, lightray, lightdir_length) THEN acc
                  ELSE [diffuse |-> acc.diffuse + d, specular |-> acc.specular + s]
      IN  IlluminationLoop(lts, sphs, ray, closest, contact_point, sphere_normal,
                           i + 1, next)

\* calcIllumination: diffuse and specular as it leaves them
calcIllumination(lts, sphs, ray, closest, contact_point, sphere_normal, diffuse, specular) ==
    IlluminationLoop(lts, sphs, ray, closest, contact_point, sphere_normal, 1,
                     [diffuse |-> diffuse, specular |-> specular])

\* main.cpp:239, diffuse_scale 1.0f, and main.cpp:240, specular_scale 0.6f
diffuse_scale == FP
specular_scale == (6 * FP) \div 10

\* one channel of final_colour before the last clamp
Compose(closest, specular, diffuse, ch) ==
    LET sp == clamp(specular, 0, FP)
        di == clamp(diffuse, 0, FP)
    IN  Mul(Mul(Mul(closest.colour[ch], closest.diffuse), di), diffuse_scale)
          + Mul(Mul(Mul(sp, closest.specular), 255 * FP), specular_scale)

\* calcFinalColour, without the clamp of final_colour
calcFinalColour_noclamp(closest, specular, diffuse) ==
    [ch \in 1..3 |-> Compose(closest, specular, diffuse, ch)]

\* calcFinalColour
calcFinalColour(closest, specular, diffuse) ==
    [ch \in 1..3 |-> clamp(Compose(closest, specular, diffuse, ch), 0, 255 * FP)]

\* ------------------------------------------------------------ pixel buffer
RECURSIVE BitOr(_, _)
\* a | b
BitOr(a, b) ==
    IF a = 0 THEN b
    ELSE IF b = 0 THEN a
    ELSE (IF a % 2 = 1 \/ b % 2 = 1 THEN 1 ELSE 0) + 2 * BitOr(a \div 2, b \div 2)

\* static_cast<unsigned short>(float): the fraction is dropped
Cast(v) == (v \div FP) % 65536

\* the 32-bit pixel setPixel builds, as its four bytes <<A, R, G, B>>:
\* (a << 24) | (r << 16) | (g << 8) | b with 16-bit r, g, b, a
Pack(r, g, b, a) ==
    <<BitOr(a % 256, r \div 256), BitOr(r % 256, g \div 256),
      BitOr(g % 256, b \div 256), b % 256>>

\* the index setPixel writes: (y * surface->w) + x
PixelIndex(x, y) == (y * SCREEN_WIDTH) + x

\* setPixel: the buffer after the write
setPixel(pixels, x, y, r, g, b, a) ==
    [pixels EXCEPT ![PixelIndex(x, y)] = Pack(r, g, b, a)]

\* ----------------------------------------------------------------- camera
\* main.cpp:325, invWidth and invHeight
invWidth == Round(FP, SCREEN_WIDTH)
invHeight == Round(FP, SCREEN_HEIGHT)
\* main.cpp:326, aspectratio
aspectratio == Round(SCREEN_WIDTH * FP, SCREEN_HEIGHT)
\* main.cpp:327, angle = tan(PI * 0.5f * 30 / 180.0f) = 0.2679
angle == Round(2679 * FP, 10000)

\* createCameraRay
createCameraRay(x, y, invW, invH, aspect, ang) ==
    LET xx == Mul(Mul(2 * Mul(x * FP + (FP \div 2), invW) - FP, ang), aspect)
        yy == Mul(FP - 2 * Mul(y * FP + (FP \div 2), invH), ang)
    IN  Ray(<<0, 0, 0>>, normalize(<<xx, yy, 0 - FP>>))

\* main.cpp:329-334, the ray of every pixel, indexed by SCREEN_WIDTH * y + x
rays ==
    [k \in 0..(SCREEN_WIDTH * SCREEN_HEIGHT - 1) |->
        createCameraRay(k % SCREEN_WIDTH, k \div SCREEN_WIDTH,
                        invWidth, invHeight, aspectratio, angle)]

\* --------------------------------------------------------------- one pixel
\* the body of the x loop of process: the buffer after pixel (x, y) is done.
\* A pixel whose ray hits nothing is not written.
ProcessPixel(pixels, sphs, lts, objs, x, y) ==
    LET stride == SCREEN_WIDTH * y
        ray == rays[stride + x]
        found == findClosestObject(sphs, lts, objs, ray, FLT_MAX)
    IN  IF found.closest = NULL THEN pixels
        ELSE
          LET closest == Deref(sphs, lts, found.closest)
              cp0 == VAdd(ray.origin, VScale(ray.direction, found.closest_dist))
              sphere_normal == normalize(VSub(cp0, closest.position))
              contact_point == VAdd(cp0, VScale(sphere_normal, bias))
              lit == calcIllumination(lts, sphs, ray, closest, contact_point,
                                      sphere_normal, 0, 0)
              final_colour == calcFinalColour(closest, lit.specular, lit.diffuse)
          IN  setPixel(pixels, x, y, Cast(final_colour[1]), Cast(final_colour[2]),
                       Cast(final_colour[3]), 255)

\* -------------------------------------------------------------- row bands
\* main.cpp:283, rows_per_thread, for a surface of h rows and n threads
rows_per_thread(h, n) == h \div n

\* the first row of thread i: rows_per_thread * i
BandStart(h, n, i) == rows_per_thread(h, n) * i

\* as BandEnd, reaching one row into the next band
BandEnd_plus1(h, n, i) == Min(rows_per_thread(h, n) * (i + 1) + 1, h)

\* one past the last row of thread i: std::min(rows_per_thread * (i+1), SCREEN_HEIGHT)
BandEnd(h, n, i) == Min(rows_per_thread(h, n) * (i + 1), h)

\* ------------------------------------------------------------------ scene
\* bounds of the model
\* frames rendered before the model stops
MaxFrames == 3
\* translations of lights[0] before the model ignores the keys
MaxMoves == 2

\* the length of one translation of lights[0]: 0.1f
KeyStep == FP \div 10

\* setupScene: the spheres.  A scene scaled to the fixed-point range: one
\* sphere and, when walled, a back wall that every camera ray hits.
SceneSpheres(walled) ==
    LET ball == Sphere3((FP * 2) \div 10, <<0, (FP * 2) \div 10, 0 - 2 * FP>>,
                        <<255 * FP, 0, 0>>)
        wall == Sphere((FP * 3) \div 2, <<0, 0, 0 - 4 * FP>>,
                       <<200 * FP, 200 * FP, 200 * FP>>, FP, (3 * FP) \div 10)
    IN  IF walled THEN <<ball, wall>> ELSE <<ball>>

\* setupScene: the lights
LightHome == <<FP \div 10, 0 - (FP \div 10), 0 - (3 * FP) \div 2>>
SceneLights == <<Light(FP, LightHome)>>

\* the window surface as SDL_GetWindowSurface hands it over
BlankSurface == [k \in 0..(SCREEN_WIDTH * SCREEN_HEIGHT - 1) |-> <<0, 0, 0, 0>>]

\* ------------------------------------------------------------------ state
VARIABLES
    spheres,         \* main: std::vector<Sphere> spheres
    lights,          \* main: std::vector<Light> lights
    render_objects,  \* main: std::vector<Renderable*> render_objects
    pixels,          \* screenSurface->pixels
    pc,              \* where main is: "dispatch", "join", "present", "poll", "done"
    i,               \* the index of the dispatch loop or of the join loop
    threads,         \* raytrace: std::vector<std::thread> threads
    quit,            \* main: bool quit
    frame,           \* the number of the frame being rendered, from 1
    moves,           \* the translations of lights[0] made so far
    writers,         \* per pixel index, the threads that wrote it in this frame
    presented,       \* the frames shown so far, the last two of them kept
    call             \* the last call of a function made on its own

vars == <<spheres, lights, render_objects, pixels, pc, i, threads, quit, frame,
          moves, writers, presented, call>>

Threads == 0..(NUM_THREADS - 1)
PixelIndexes == 0..(SCREEN_WIDTH * SCREEN_HEIGHT - 1)

\* a std::thread that has not been started
NoThread ==
    [state |-> "none", joined |-> FALSE, start |-> 0, end |-> 0, y |-> 0, x |-> 0]

NoCall == [fn |-> "none"]

\* main up to the frame loop: setupScene, the window surface, quit = false
Init ==
    /\ \E walled \in BOOLEAN : spheres = SceneSpheres(walled)
    /\ lights = SceneLights
    /\ render_objects = RenderObjects(spheres, lights)
    /\ pixels = BlankSurface
    /\ pc = "dispatch"
    /\ i = 0
    /\ threads = [t \in Threads |-> NoThread]
    /\ quit = FALSE
    /\ frame = 1
    /\ moves = 0
    /\ writers = [k \in PixelIndexes |-> {}]
    /\ presented = <<>>
    /\ call = NoCall

\* ------------------------------------------------------------ raytrace
\* raytrace, one turn of its first loop:
\* threads[i] = std::thread(process, rows_per_thread * i, std::min(...))
Dispatch ==
    /\ pc = "dispatch"
    /\ i < NUM_THREADS
    /\ threads' = [threads EXCEPT ![i] =
            [state |-> "running",
             joined |-> FALSE,
             start |-> BandStart(SCREEN_HEIGHT, NUM_THREADS, i),
             end |-> BandEnd(SCREEN_HEIGHT, NUM_THREADS, i),
             y |-> BandStart(SCREEN_HEIGHT, NUM_THREADS, i),
             x |-> 0]]
    /\ i' = IF i + 1 < NUM_THREADS THEN i + 1 ELSE 0
    /\ pc' = IF i + 1 < NUM_THREADS THEN "dispatch" ELSE "join"
    /\ UNCHANGED <<spheres, lights, render_objects, pixels, quit, frame, moves,
                   writers, presented, call>>

\* whether the ray of pixel (x, y) hits an object, so that process writes the pixel
Hits(x, y) ==
    findClosestObject(spheres, lights, render_objects,
                      rays[SCREEN_WIDTH * y + x], FLT_MAX).closest # NULL

\* process, one turn of its x loop in thread t: pixel (x, y) of the band
Process(t) ==
    LET th == threads[t]
    IN  /\ th.state = "running"
        /\ th.y < th.end
        /\ pixels' = ProcessPixel(pixels, spheres, lights, render_objects, th.x, th.y)
        /\ writers' = IF Hits(th.x, th.y)
                      THEN [k \in PixelIndexes |->
                               IF k = PixelIndex(th.x, th.y)
                               THEN writers[k] \cup {t} ELSE writers[k]]
                      ELSE writers
        /\ threads' = [threads EXCEPT ![t] =
                IF th.x + 1 < SCREEN_WIDTH
                THEN [th EXCEPT !.x = th.x + 1]
                ELSE [th EXCEPT !.x = 0, !.y = th.y + 1]]
        /\ UNCHANGED <<spheres, lights, render_objects, pc, i, quit, frame, moves,
                       presented, call>>

\* process returns in thread t: its y loop is over
ProcessReturn(t) ==
    /\ threads[t].state = "running"
    /\ threads[t].y >= threads[t].end
    /\ threads' = [threads EXCEPT ![t].state = "finished"]
    /\ UNCHANGED <<spheres, lights, render_objects, pixels, pc, i, quit, frame,
                   moves, writers, presented, call>>

\* as Joinable, for a join that does not wait for the thread
Joinable_nowait(th) == th.state \in {"running", "finished"}

\* threads[i].join() returns once the thread has finished
Joinable(th) == th.state = "finished"

\* as LastJoin, for a join loop that stops after threads[0]
LastJoin_first(n) == TRUE

\* whether the join loop ends after threads[n]
LastJoin(n) == n + 1 >= NUM_THREADS

\* raytrace, one turn of its second loop: threads[i].join()
Join ==
    /\ pc = "join"
    /\ Joinable(threads[i])
    /\ threads' = [threads EXCEPT ![i].joined = TRUE]
    /\ i' = IF LastJoin(i) THEN 0 ELSE i + 1
    /\ pc' = IF LastJoin(i) THEN "present" ELSE "join"
    /\ UNCHANGED <<spheres, lights, render_objects, pixels, quit, frame, moves,
                   writers, presented, call>>

\* ---------------------------------------------------------------- main
\* the last two entries of a sequence
LastTwo(q) == IF Len(q) <= 2 THEN q ELSE SubSeq(q, Len(q) - 1, Len(q))

\* main: SDL_UpdateWindowSurface(window) shows the surface
Present ==
    /\ pc = "present"
    /\ presented' = LastTwo(Append(presented,
            [frame |-> frame, pixels |-> pixels, lights |-> lights]))
    /\ pc' = "poll"
    /\ UNCHANGED <<spheres, lights, render_objects, pixels, i, threads, quit, frame,
                   moves, writers, call>>

Keys == {"ESCAPE", "e", "d", "s", "f", "q", "a", "other"}

\* the translation of lights[0] a key makes
KeyDelta(key) ==
    CASE key = "e" -> <<0, 0, 0 - KeyStep>>
      [] key = "d" -> <<0, 0, KeyStep>>
      [] key = "s" -> <<0 - KeyStep, 0, 0>>
      [] key = "f" -> <<KeyStep, 0, 0>>
      [] key = "q" -> <<0, KeyStep, 0>>
      [] key = "a" -> <<0, 0 - KeyStep, 0>>
      [] OTHER -> <<0, 0, 0>>

\* main, one turn of the poll loop with an SDL_QUIT event
PollQuit ==
    /\ pc = "poll"
    /\ quit' = TRUE
    /\ UNCHANGED <<spheres, lights, render_objects, pixels, pc, i, threads, frame,
                   moves, writers, presented, call>>

\* as PollKey, for key events handled while raytrace is still joining its threads
PollKey_anytime ==
    /\ pc \in {"join", "poll"}
    /\ \E key \in Keys :
        LET d == KeyDelta(key)
        IN  IF key \in {"ESCAPE", "other"}
            THEN /\ quit' = (quit \/ key = "ESCAPE")
                 /\ UNCHANGED <<lights, moves>>
            ELSE /\ moves < MaxMoves
                 /\ lights' = [lights EXCEPT ![1] =
                                   translate(lights[1], d[1], d[2], d[3])]
                 /\ moves' = moves + 1
                 /\ UNCHANGED quit
    /\ UNCHANGED <<spheres, render_objects, pixels, pc, i, threads, frame,
                   writers, presented, call>>

\* main, one turn of the poll loop with an SDL_KEYDOWN event
PollKey ==
    /\ pc = "poll"
    /\ \E key \in Keys :
        LET d == KeyDelta(key)
        IN  IF key \in {"ESCAPE", "other"}
            THEN /\ quit' = (quit \/ key = "ESCAPE")
                 /\ UNCHANGED <<lights, moves>>
            ELSE /\ moves < MaxMoves
                 /\ lights' = [lights EXCEPT ![1] =
                                   translate(lights[1], d[1], d[2], d[3])]
                 /\ moves' = moves + 1
                 /\ UNCHANGED quit
    /\ UNCHANGED <<spheres, render_objects, pixels, pc, i, threads, frame,
                   writers, presented, call>>

\* main: SDL_PollEvent returns 0 and while (!quit) is tested; when it goes on,
\* raytrace is entered and makes its vector of NUM_THREADS threads
PollEmpty ==
    /\ pc = "poll"
    /\ IF quit
       THEN /\ pc' = "done"
            /\ UNCHANGED <<threads, frame, writers>>
       ELSE /\ frame < MaxFrames
            /\ pc' = "dispatch"
            /\ frame' = frame + 1
            /\ threads' = [t \in Threads |-> NoThread]
            /\ writers' = [k \in PixelIndexes |-> {}]
    /\ UNCHANGED <<spheres, lights, render_objects, pixels, i, quit, moves,
                   presented, call>>

Next ==
    \/ Dispatch
    \/ \E t \in Threads : Process(t)
    \/ \E t \in Threads : ProcessReturn(t)
    \/ Join
    \/ Present
    \/ PollQuit
    \/ PollKey
    \/ PollEmpty

Spec == Init /\ [][Next]_vars

\* ------------------------------------------------- functions on their own
\* bounds of the inputs
\* the coordinates of a probe sphere, on each side of the origin
MaxCoord == 6
\* the surface heights and thread counts the row bands are computed for
MaxHeight == 7
MaxThreads == 4

\* the state before any call: that of Init
InitPure == Init

ProbeRadius == FP \div 20

ProbeSpheres ==
    {Sphere3(r, <<px, 0, pz>>, <<255 * FP, 0, 0>>) :
        r \in {0, 3}, px \in {0, 2, 4}, pz \in (0 - MaxCoord)..MaxCoord}

ProbeRays ==
    {Ray(<<0, 0, 0>>, d) :
        d \in {<<0, 0, 0 - FP>>, <<0, 0, FP>>,
               <<(3 * FP) \div 5, 0, 0 - ((4 * FP) \div 5)>>}}

\* a call of Sphere::intersect
CallIntersect ==
    /\ call = NoCall
    /\ \E sphere \in ProbeSpheres, ray \in ProbeRays :
         call' = [fn |-> "intersect", sphere |-> sphere, ray |-> ray,
                  out |-> intersect(sphere, ray)]
    /\ UNCHANGED <<spheres, lights, render_objects, pixels, pc, i, threads, quit,
                   frame, moves, writers, presented>>

\* places on the z axis and off it, for objects of radius ProbeRadius
ProbePlaces ==
    {<<0, 0, 0 - 4 * ProbeRadius>>, <<0, 0, 0 - 6 * ProbeRadius>>,
     <<0, 0, 4 * ProbeRadius>>, <<10 * ProbeRadius, 0, 0 - 4 * ProbeRadius>>}

AxisRays == {Ray(<<0, 0, 0>>, d) : d \in {<<0, 0, 0 - FP>>, <<0, 0, FP>>}}

\* a call of findClosestObject on the list setupScene builds
CallFindClosest ==
    /\ call = NoCall
    /\ \E p1 \in ProbePlaces, p2 \in ProbePlaces, p3 \in ProbePlaces,
          ray \in AxisRays, init \in {INFINITY, FLT_MAX, 3 * ProbeRadius} :
         LET sphs == <<Sphere3(ProbeRadius, p1, <<255 * FP, 0, 0>>),
                       Sphere3(ProbeRadius, p2, <<0, 255 * FP, 0>>)>>
             lts == <<Light(FP, p3)>>
             objs == RenderObjects(sphs, lts)
         IN  call' = [fn |-> "findClosestObject", spheres |-> sphs, lights |-> lts,
                      objs |-> objs, ray |-> ray, init |-> init,
                      out |-> findClosestObject(sphs, lts, objs, ray, init)]
    /\ UNCHANGED <<spheres, lights, render_objects, pixels, pc, i, threads, quit,
                   frame, moves, writers, presented>>

\* a call of isInShadow as calcIllumination makes it: the ray from the light
\* to the contact point and the distance between them
CallIsInShadow ==
    /\ call = NoCall
    /\ \E p1 \in ProbePlaces, p2 \in ProbePlaces,
          c \in {2, 3, 4, 8}, side \in {0 - 1, 1} :
         LET sphs == <<Sphere3(ProbeRadius, p1, <<255 * FP, 0, 0>>),
                       Sphere3(ProbeRadius, p2, <<0, 255 * FP, 0>>)>>
             light == Light(FP, <<0, 0, 0>>)
             contact_point == <<0, 0, side * c * ProbeRadius + side>>
             lightdir == VSub(contact_point, light.position)
             lightray == Ray(light.position, normalize(lightdir))
             lightdir_length == length(lightdir)
         IN  call' = [fn |-> "isInShadow", spheres |-> sphs, light |-> light,
                      lightray |-> lightray, lightdir_length |-> lightdir_length,
                      out |-> isInShadow(sphs, lightray, lightdir_length)]
    /\ UNCHANGED <<spheres, lights, render_objects, pixels, pc, i, threads, quit,
                   frame, moves, writers, presented>>

Coefficients == {0, FP \div 2, FP}
Accumulated == {0 - FP, 0, FP \div 2, FP, 3 * FP}
Channels == {0, 128 * FP, 255 * FP}

\* a call of calcFinalColour, and of setPixel with its result as process makes it
CallFinalColour ==
    /\ call = NoCall
    /\ \E r \in Channels, g \in Channels, kd \in Coefficients, ks \in Coefficients,
          specular \in Accumulated, diffuse \in Accumulated :
         LET closest == Sphere(ProbeRadius, <<0, 0, 0>>, <<r, g, 255 * FP>>, kd, ks)
             final_colour == calcFinalColour(closest, specular, diffuse)
         IN  call' = [fn |-> "calcFinalColour", closest |-> closest,
                      specular |-> specular, diffuse |-> diffuse,
                      out |-> final_colour,
                      pixel |-> setPixel(BlankSurface, 0, 0, Cast(final_colour[1]),
                                         Cast(final_colour[2]), Cast(final_colour[3]),
                                         255)[PixelIndex(0, 0)]]
    /\ UNCHANGED <<spheres, lights, render_objects, pixels, pc, i, threads, quit,
                   frame, moves, writers, presented>>

\* the row bands raytrace gives its threads, for a surface of h rows and n threads
CallBands ==
    /\ call = NoCall
    /\ \E h \in 1..MaxHeight, n \in 1..MaxThreads :
         call' = [fn |-> "bands", height |-> h, n |-> n,
                  bands |-> [t \in 0..(n - 1) |->
                                [start |-> BandStart(h, n, t),
                                 end |-> BandEnd(h, n, t)]]]
    /\ UNCHANGED <<spheres, lights, render_objects, pixels, pc, i, threads, quit,
                   frame, moves, writers, presented>>

NextPure ==
    \/ CallIntersect
    \/ CallFindClosest
    \/ CallIsInShadow
    \/ CallFinalColour
    \/ CallBands

SpecPure == InitPure /\ [][NextPure]_vars

\* ------------------------------------------------------------- properties
Ceil(a, b) == (a + b - 1) \div b

\* C1: for every height and every thread count n >= 1, the bands are n contiguous
\* row ranges of ceil(height / n) rows, the last possibly shorter, and every row
\* of [0, height) lies in the band of exactly one thread.
C1_BandsPartitionRows ==
    call.fn = "bands" =>
        LET h == call.height
            n == call.n
            b == call.bands
        IN  /\ \A y \in 0..(h - 1) :
                Cardinality({t \in 0..(n - 1) : b[t].start <= y /\ y < b[t].end}) = 1
            /\ \A t \in 0..(n - 2) :
                /\ b[t].end - b[t].start = Ceil(h, n)
                /\ b[t + 1].start = b[t].end
            /\ b[n - 1].end - b[n - 1].start <= Ceil(h, n)

\* the row of a pixel index
RowOf(k) == k \div SCREEN_WIDTH

\* C2: in one render pass, under every interleaving, a thread writes only pixels
\* whose row lies in its own band, and no pixel is written by two threads.
C2_DisjointWrites ==
    \A k \in PixelIndexes :
        /\ Cardinality(writers[k]) <= 1
        /\ \A t \in writers[k] :
              threads[t].start <= RowOf(k) /\ RowOf(k) < threads[t].end

\* both threads have written pixels of the same pass
C2_Witness ==
    /\ \E k \in PixelIndexes : writers[k] = {0}
    /\ \E k \in PixelIndexes : writers[k] = {NUM_THREADS - 1}
    /\ \E t \in Threads : threads[t].state = "running"

\* the number of the last frame shown, 0 before the first
LastShown == IF presented = <<>> THEN 0 ELSE presented[Len(presented)].frame

\* C3: the frame loop is a barrier: frame k is shown only when all its threads
\* have run to the end and been joined, and a thread of frame k+1 is started
\* only after every thread of frame k has been joined and frame k has been shown.
C3_Barrier ==
    /\ pc \in {"present", "poll", "done"} =>
          \A t \in Threads : threads[t].state = "finished" /\ threads[t].joined
    /\ pc \in {"dispatch", "join", "present"} => LastShown = frame - 1
    /\ pc \in {"poll", "done"} => LastShown = frame
    /\ \A t \in Threads :
          threads[t].state # "none" => LastShown >= frame - 1

\* the second frame is about to be shown, all its threads joined
C3_Witness ==
    /\ pc = "present"
    /\ frame = 2
    /\ \E k \in PixelIndexes : writers[k] # {}

\* C4: lights[0] is translated only between frames, after the threads of the
\* last frame have been joined and before those of the next are started: no
\* step changes a light while a thread can still read the scene.
C4_TranslateBetweenFrames ==
    [][lights' # lights =>
          /\ pc = "poll"
          /\ \A t \in Threads : threads[t].state = "finished" /\ threads[t].joined]_vars

\* a frame rendered after lights[0] has been translated
C4_Witness ==
    /\ lights # SceneLights
    /\ frame = 2
    /\ pc = "join"

\* C5: a scene rendered twice in a row without a change gives the same buffer,
\* whatever the interleavings of the threads in the two passes.
C5_RerenderIdentical ==
    (Len(presented) = 2 /\ presented[1].lights = presented[2].lights) =>
        presented[1].pixels = presented[2].pixels

\* two frames of the same scene have been shown, with shaded pixels
C5_Witness ==
    /\ Len(presented) = 2
    /\ presented[1].lights = presented[2].lights
    /\ presented[2].pixels # BlankSurface

\* the distance of object k of the list of a findClosestObject call
CallDist(k) ==
    intersect(Deref(call.spheres, call.lights, call.objs[k]), call.ray)

\* C6: findClosestObject called with the running best at +infinity returns the
\* object of the least strictly positive distance and leaves that distance in
\* closest_dist; of several at that distance it returns the first of the list,
\* which holds the spheres before the lights; with no positive distance it
\* returns null.
C6_ClosestIsFirstMinimum ==
    (call.fn = "findClosestObject" /\ call.init = INFINITY) =>
        LET n == Len(call.objs)
            pos == {k \in 1..n : CallDist(k) > 0}
        IN  /\ \A k \in 1..n :
                  call.objs[k].kind = "sphere" <=> k <= Len(call.spheres)
            /\ pos = {} => call.out.closest = NULL
            /\ pos # {} =>
                  \E k \in pos :
                      /\ \A j \in pos : CallDist(k) <= CallDist(j)
                      /\ \A j \in pos : j < k => CallDist(k) < CallDist(j)
                      /\ call.out.closest = call.objs[k]
                      /\ call.out.closest_dist = CallDist(k)

\* a sphere and the light at the same least distance: the sphere is returned
C6_Witness ==
    /\ call.fn = "findClosestObject"
    /\ call.init = INFINITY
    /\ call.out.closest.kind = "sphere"
    /\ CallDist(3) = call.out.closest_dist
    /\ CallDist(3) > 0

\* C7: isInShadow is true exactly when a sphere of the sphere list has a
\* distance d with 0 < d < maxDistance; a sphere at distance 0 or at
\* maxDistance or more, and the light itself, never make it true.
C7_ShadowIffSphereBetween ==
    call.fn = "isInShadow" =>
        (call.out <=>
            \E k \in 1..Len(call.spheres) :
                LET d == intersect(call.spheres[k], call.lightray)
                IN  0 < d /\ d < call.lightdir_length)

\* a sphere on the ray beyond the contact point, and the light's own sphere
\* within the distance: not in shadow
C7_Witness ==
    /\ call.fn = "isInShadow"
    /\ ~call.out
    /\ \E k \in 1..Len(call.spheres) :
          intersect(call.spheres[k], call.lightray) >= call.lightdir_length
    /\ intersect(call.light, call.lightray) > 0
    /\ intersect(call.light, call.lightray) < call.lightdir_length

\* C8: for every accumulated diffuse and specular value and every material with
\* colour channels in [0, 255] and coefficients in [0, 1], each channel of the
\* colour calcFinalColour returns lies in [0, 255], and setPixel packs each in
\* its own byte of the pixel, under alpha 255.
C8_ChannelsInRange ==
    (/\ call.fn = "calcFinalColour"
     /\ \A ch \in 1..3 : 0 <= call.closest.colour[ch] /\ call.closest.colour[ch] <= 255 * FP
     /\ 0 <= call.closest.diffuse /\ call.closest.diffuse <= FP
     /\ 0 <= call.closest.specular /\ call.closest.specular <= FP) =>
        /\ \A ch \in 1..3 : 0 <= call.out[ch] /\ call.out[ch] <= 255 * FP
        /\ call.pixel = <<255, call.out[1] \div FP, call.out[2] \div FP,
                          call.out[3] \div FP>>
        /\ \A byte \in 1..4 : call.pixel[byte] \in 0..255

\* the sum of the diffuse and specular parts exceeds 255 and is clamped
C8_Witness ==
    /\ call.fn = "calcFinalColour"
    /\ Compose(call.closest, call.specular, call.diffuse, 1) > 255 * FP
    /\ call.out[1] = 255 * FP
    /\ call.pixel[2] = 255

\* C9: Sphere::intersect returns 0 when det is negative; else the near root
\* b - sqrt(det) when it is above eps, else the far root b + sqrt(det) when it
\* is above eps, else 0.  So the result is 0 or above eps, never negative and
\* never in (0, eps].
C9_IntersectRoots ==
    call.fn = "intersect" =>
        LET b == B(call.sphere, call.ray)
            det == Det(call.sphere, call.ray)
        IN  /\ det < 0 => call.out = 0
            /\ det >= 0 =>
                  \E root \in 0..det :
                      /\ root * root <= det
                      /\ det < (root + 1) * (root + 1)
                      /\ call.out = IF b - root > eps THEN b - root
                                    ELSE IF b + root > eps THEN b + root
                                    ELSE 0
            /\ call.out = 0 \/ call.out > eps

\* the near root is exactly eps: it is passed over and the far root returned
C9_Witness ==
    /\ call.fn = "intersect"
    /\ Det(call.sphere, call.ray) > 0
    /\ B(call.sphere, call.ray) - Sqrt(Det(call.sphere, call.ray)) = eps
    /\ call.out = B(call.sphere, call.ray) + Sqrt(Det(call.sphere, call.ray))

\* C10: when a frame is shown, every pixel of the surface has been written in
\* that pass, with the value shaded from the scene as it was at the dispatch,
\* the pixels whose ray hits no object included: no pixel keeps an older value.
C10_EveryPixelShaded ==
    pc = "poll" =>
        \A k \in PixelIndexes :
            /\ writers[k] # {}
            /\ pixels[k] = ProcessPixel(pixels, spheres, presented[Len(presented)].lights,
                                        render_objects, k % SCREEN_WIDTH, RowOf(k))[k]

====
